---- MODULE Spec2Model ----
(***************************************************************************)
(* Model of llm_xai.py: the disk-cached JSON fetch (fetch_cached_json),    *)
(* the registration hook built on it (register_models, get_xAI_models) and *)
(* the stream switch of XAIChat.execute / XAICompletion.execute.           *)
(*                                                                         *)
(* A text (an HTTP body, a file's content) is a sequence of tokens.  The   *)
(* tokens "m1", "m2" each stand for the text of one model descriptor       *)
(* object {"id": "m1"}; every other token is the JSON punctuation it       *)
(* shows.  A file is written at a byte offset, so a write that is shorter  *)
(* than what the file holds leaves the old tail in place.                  *)
(***************************************************************************)
EXTENDS Integers, Sequences, FiniteSets, TLC

\* ---------------------------------------------------------------- bounds
\* The clock advances at most MaxTicks times.
MaxTicks == 3

\* ------------------------------------------------------------- constants
\* get_xAI_models: cache_timeout=3600
CacheTimeout == 3600

\* One clock step: half the catalog's freshness window, so that ages below,
\* equal to and above a window all occur.
TickSeconds == CacheTimeout \div 2

\* The windows a direct caller of fetch_cached_json passes.
Timeouts == {0, TickSeconds, CacheTimeout}

\* get_xAI_models: path=llm.user_dir() / "xAI_models.json"
CatalogPath == "user_dir/xAI_models.json"

\* A second path, two directories deep, for direct calls.
DeepPath == "cache/xai/models.json"

Paths == {CatalogPath, DeepPath}

\* Path(path).parent and its own parents: what mkdir(parents=True) creates.
Ancestors(path) ==
    IF path = CatalogPath THEN {"user_dir"} ELSE {"cache", "cache/xai"}

\* Path(path).parent
Parent(path) == IF path = CatalogPath THEN "user_dir" ELSE "cache/xai"

Procs == {1, 2}

\* ------------------------------------------------------------------ JSON
ItemTokens == {"m1", "m2"}

\* The model catalogs the endpoint may answer with (lists of model ids).
Catalogs == {<< >>, <<"m1">>, <<"m2", "m1">>}

\* A parsed catalog: {"data": [{"id": ...}, ...]}
Value(ids) == [data |-> [i \in 1..Len(ids) |-> [id |-> ids[i]]]]

ParseFail == [ok |-> FALSE, value |-> Value(<< >>)]

NotSpace(tok) == tok # " "

RECURSIVE ParseTail(_, _)
\* After one item of the data array: "," item ... or the closing "]" "}".
ParseTail(t, acc) ==
    IF Len(t) = 2 /\ t[1] = "]" /\ t[2] = "}"
    THEN [ok |-> TRUE, value |-> [data |-> acc]]
    ELSE IF Len(t) >= 2 /\ t[1] = "," /\ t[2] \in ItemTokens
    THEN ParseTail(SubSeq(t, 3, Len(t)), Append(acc, [id |-> t[2]]))
    ELSE ParseFail

\* json.load / json.loads / response.json(): whitespace between tokens is
\* dropped, the rest must be a complete document.
JsonLoads(text) ==
    LET t == SelectSeq(text, NotSpace) IN
    IF Len(t) < 6 \/ SubSeq(t, 1, 4) # <<"{", "data", ":", "[">> THEN ParseFail
    ELSE IF t[5] = "]"
    THEN (IF Len(t) = 6 /\ t[6] = "}"
          THEN [ok |-> TRUE, value |-> Value(<< >>)] ELSE ParseFail)
    ELSE IF t[5] \in ItemTokens
    THEN ParseTail(SubSeq(t, 6, Len(t)), <<[id |-> t[5]]>>)
    ELSE ParseFail

RECURSIVE DumpItems(_, _)
DumpItems(items, i) ==
    IF i > Len(items) THEN << >>
    ELSE (IF i = 1 THEN << >> ELSE <<",", " ">>)
         \o <<items[i].id>> \o DumpItems(items, i + 1)

\* A DumpItems without the item separator.
RECURSIVE DumpItemsNoSep(_, _)
DumpItemsNoSep(items, i) ==
    IF i > Len(items) THEN << >>
    ELSE <<items[i].id>> \o DumpItemsNoSep(items, i + 1)

\* A json.dump that loses the separator between the items of a list.
JsonDumpNoSep(v) ==
    <<"{", "data", ":", " ", "[">> \o DumpItemsNoSep(v.data, 1) \o <<"]", "}">>

\* json.dump with its default separators (", " and ": ").
JsonDump(v) ==
    <<"{", "data", ":", " ", "[">> \o DumpItems(v.data, 1) \o <<"]", "}">>

RECURSIVE CompactItems(_, _)
CompactItems(ids, i) ==
    IF i > Len(ids) THEN << >>
    ELSE (IF i = 1 THEN << >> ELSE <<",">>) \o <<ids[i]>> \o CompactItems(ids, i + 1)

\* A server's body for a catalog, without any whitespace.
Compact(ids) == <<"{", "data", ":", "[">> \o CompactItems(ids, 1) \o <<"]", "}">>

\* Bodies of a response with a success status: catalogs as the server or as
\* Python would print them, and two that are no JSON document (an empty
\* body, a body cut short).
ValidBodies == {Compact(c) : c \in Catalogs} \cup {JsonDump(Value(c)) : c \in Catalogs}

InvalidBodies == {<< >>, <<"{", "data", ":", "[", "m1">>}

Bodies == ValidBodies \cup InvalidBodies

\* ----------------------------------------------------------------- state
VARIABLES
    now,        \* time.time(), in seconds
    dirs,       \* the directories that exist
    files,      \* path -> [exists, content, mtime]
    pc,         \* each caller's position in register_models / fetch_cached_json
    call,       \* each caller's arguments, locals, outcome and history
    lastOk,     \* history: path -> the parsed body of the last successful response
    lastWrite,  \* history: path -> the text the last write to land carried
    exec        \* the last run of XAIChat.execute / XAICompletion.execute

vars == <<now, dirs, files, pc, call, lastOk, lastWrite, exec>>

NoFile == [exists |-> FALSE, content |-> << >>, mtime |-> 0]

NoResult ==
    [state |-> "none", value |-> Value(<< >>), error |-> "", errpath |-> "", source |-> ""]

Returned(v, src) ==
    [state |-> "return", value |-> v, error |-> "", errpath |-> "", source |-> src]

Raised(err, path) ==
    [state |-> "raise", value |-> Value(<< >>), error |-> err, errpath |-> path, source |-> ""]

IdleCall ==
    [kind |-> "none", key |-> "", path |-> CatalogPath, timeout |-> 0,
     resp |-> << >>, buf |-> << >>, result |-> NoResult, trace |-> << >>,
     pre |-> NoFile, preDirs |-> {}, checked |-> FALSE, sawFile |-> FALSE, sawAge |-> 0,
     registered |-> << >>]

NoExec ==
    [ran |-> FALSE, model |-> "", streamAsked |-> FALSE, effort |-> "None",
     temperature |-> "None", system |-> FALSE, raised |-> "",
     apiCalled |-> FALSE, apiStream |-> FALSE, yielded |-> << >>]

Init ==
    /\ now = 0
    /\ dirs = {}
    /\ files = [f \in Paths |-> NoFile]
    /\ pc = [p \in Procs |-> "idle"]
    /\ call = [p \in Procs |-> IdleCall]
    /\ lastOk = [f \in Paths |-> [some |-> FALSE, value |-> Value(<< >>)]]
    /\ lastWrite = [f \in Paths |-> [some |-> FALSE, text |-> << >>]]
    /\ exec = NoExec

\* Where fetch_cached_json's outcome goes: back into register_models (through
\* get_xAI_models), or to the direct caller.
AfterFetch(p) == IF call[p].kind = "register" THEN "register" ELSE "done"

Log(p, event) == Append(call[p].trace, event)

\* ------------------------------------------------------ fetch_cached_json
\* A mkdir that creates nothing.
NoMkdir(d, path) == d

\* path.parent.mkdir(parents=True, exist_ok=True)
MkdirParents(d, path) == d \cup Ancestors(path)

Mkdir(p) ==
    /\ pc[p] = "mkdir"
    /\ dirs' = MkdirParents(dirs, call[p].path)
    /\ pc' = [pc EXCEPT ![p] = "check"]
    /\ UNCHANGED <<now, files, call, lastOk, lastWrite, exec>>

\* time.time() - mod_time < cache_timeout
IsFresh(age, timeout) == age < timeout

\* path.is_file(), path.stat().st_mtime and the freshness test
Check(p) ==
    LET f == files[call[p].path]
        age == now - f.mtime
    IN
    /\ pc[p] = "check"
    /\ call' = [call EXCEPT ![p].checked = TRUE,
                            ![p].sawFile = f.exists,
                            ![p].sawAge = IF f.exists THEN age ELSE 0]
    /\ pc' = [pc EXCEPT ![p] =
                IF f.exists /\ IsFresh(age, call[p].timeout) THEN "readfresh" ELSE "request"]
    /\ UNCHANGED <<now, dirs, files, lastOk, lastWrite, exec>>

\* with open(path, "r") as file: return json.load(file)
ReadJson(p, src) ==
    LET parsed == JsonLoads(files[call[p].path].content) IN
    IF parsed.ok THEN Returned(parsed.value, src)
    ELSE Raised("JSONDecodeError", "")

ReadFresh(p) ==
    /\ pc[p] = "readfresh"
    /\ call' = [call EXCEPT ![p].result = ReadJson(p, "fresh"),
                            ![p].trace = Log(p, "read_fresh")]
    /\ pc' = [pc EXCEPT ![p] = AfterFetch(p)]
    /\ UNCHANGED <<now, dirs, files, lastOk, lastWrite, exec>>

\* A failure handling that asks the network again.
PcAfterFailureRetry(trace) == IF Len(trace) < 3 THEN "request" ELSE "except"

\* except httpx.HTTPError: the handler runs, the request is not repeated
PcAfterFailure(trace) == "except"

\* httpx.get(...) and response.raise_for_status(): a transport error or a
\* non-success status raises httpx.HTTPError; otherwise the body is at hand.
Request(p) ==
    /\ pc[p] = "request"
    /\ \/ /\ \E failure \in {"request_transport_error", "request_bad_status"} :
                call' = [call EXCEPT ![p].trace = Log(p, failure)]
          /\ pc' = [pc EXCEPT ![p] = PcAfterFailure(call'[p].trace)]
          /\ UNCHANGED lastOk
       \/ /\ \E body \in Bodies :
            /\ call' = [call EXCEPT ![p].resp = body, ![p].trace = Log(p, "request_ok")]
            /\ lastOk' = IF JsonLoads(body).ok
                         THEN [lastOk EXCEPT ![call[p].path] =
                                  [some |-> TRUE, value |-> JsonLoads(body).value]]
                         ELSE lastOk
          /\ pc' = [pc EXCEPT ![p] = "open"]
    /\ UNCHANGED <<now, dirs, files, lastWrite, exec>>

\* open(path, "w"): creates the file or cuts it to length zero
OpenW(p) ==
    /\ pc[p] = "open"
    /\ IF Parent(call[p].path) \in dirs
       THEN /\ files' = [files EXCEPT ![call[p].path] =
                            [exists |-> TRUE, content |-> << >>, mtime |-> now]]
            /\ call' = [call EXCEPT ![p].trace = Log(p, "open_w")]
            /\ pc' = [pc EXCEPT ![p] = "dump"]
       ELSE /\ call' = [call EXCEPT ![p].result = Raised("FileNotFoundError", call[p].path)]
            /\ pc' = [pc EXCEPT ![p] = AfterFetch(p)]
            /\ UNCHANGED files
    /\ UNCHANGED <<now, dirs, lastOk, lastWrite, exec>>

\* json.dump(response.json(), file), inside the with block: the body is
\* parsed after the file is open; a body that is no JSON raises
\* json.JSONDecodeError, which is no httpx.HTTPError, and the with block
\* closes the file it has cut.
Dump(p) ==
    LET parsed == JsonLoads(call[p].resp) IN
    /\ pc[p] = "dump"
    /\ IF parsed.ok
       THEN /\ call' = [call EXCEPT ![p].buf = JsonDump(parsed.value)]
            /\ pc' = [pc EXCEPT ![p] = "flush"]
       ELSE /\ call' = [call EXCEPT ![p].result = Raised("JSONDecodeError", "")]
            /\ pc' = [pc EXCEPT ![p] = AfterFetch(p)]
    /\ UNCHANGED <<now, dirs, files, lastOk, lastWrite, exec>>

\* A write of text at offset 0 of a file opened without O_APPEND: what the
\* file holds beyond the text stays.
WriteAt0(content, text) ==
    text \o SubSeq(content, Len(text) + 1, Len(content))

\* The end of the with block: close() flushes the buffered text in one write
\* at this descriptor's own offset.
Flush(p) ==
    LET f == files[call[p].path] IN
    /\ pc[p] = "flush"
    /\ files' = [files EXCEPT ![call[p].path] =
                    [exists |-> TRUE, content |-> WriteAt0(f.content, call[p].buf),
                     mtime |-> now]]
    /\ lastWrite' = [lastWrite EXCEPT ![call[p].path] =
                        [some |-> TRUE, text |-> call[p].buf]]
    /\ call' = [call EXCEPT ![p].trace = Log(p, "write")]
    /\ pc' = [pc EXCEPT ![p] = "retjson"]
    /\ UNCHANGED <<now, dirs, lastOk, exec>>

\* return response.json()
ReturnJson(p) ==
    /\ pc[p] = "retjson"
    /\ call' = [call EXCEPT ![p].result = Returned(JsonLoads(call[p].resp).value, "network")]
    /\ pc' = [pc EXCEPT ![p] = AfterFetch(p)]
    /\ UNCHANGED <<now, dirs, files, lastOk, lastWrite, exec>>

\* A DownloadError that names the URL.
DownloadErrorUrl(path) == Raised("DownloadError", "https://api.x.ai/v1/models")

\* raise DownloadError(f"Failed to download data and no cache is available at {path}")
DownloadError(path) == Raised("DownloadError", path)

\* except httpx.HTTPError: if path.is_file() ... else raise DownloadError
Except(p) ==
    /\ pc[p] = "except"
    /\ IF files[call[p].path].exists
       THEN /\ pc' = [pc EXCEPT ![p] = "readstale"]
            /\ UNCHANGED call
       ELSE /\ call' = [call EXCEPT ![p].result = DownloadError(call[p].path)]
            /\ pc' = [pc EXCEPT ![p] = AfterFetch(p)]
    /\ UNCHANGED <<now, dirs, files, lastOk, lastWrite, exec>>

ReadStale(p) ==
    /\ pc[p] = "readstale"
    /\ call' = [call EXCEPT ![p].result = ReadJson(p, "stale"),
                            ![p].trace = Log(p, "read_stale")]
    /\ pc' = [pc EXCEPT ![p] = AfterFetch(p)]
    /\ UNCHANGED <<now, dirs, files, lastOk, lastWrite, exec>>

FetchStep(p) ==
    \/ Mkdir(p)
    \/ Check(p)
    \/ ReadFresh(p)
    \/ Request(p)
    \/ OpenW(p)
    \/ Dump(p)
    \/ Flush(p)
    \/ ReturnJson(p)
    \/ Except(p)
    \/ ReadStale(p)

\* ------------------------------------- XAIChat.execute, XAICompletion.execute
\* The values of the reasoning_effort option: its default None, or a member
\* of ReasoningEffortEnum.
Efforts == {"None", "low", "high"}

\* prompt.options: an instance of the model's Options class, which declares
\* reasoning_effort (default None) beside the inherited fields (of which
\* temperature stands for all).
Options == [temperature : {"None", "0.7"}, reasoning_effort : Efforts]

\* Iterating prompt.options: one (field name, value) pair per declared
\* field, whatever its value.
OptionItems(o) == {<<name, o[name]>> : name \in DOMAIN o}

\* has_reasoning = any(isinstance(opt[0], str) and opt[0] == 'reasoning_effort'
\*                     for opt in prompt.options)
HasReasoning(o) == \E opt \in OptionItems(o) : opt[1] = "reasoning_effort"

\* What one streamed chunk carries: a piece of content, content None, or no
\* choices at all.
ChunkKinds == {"a", "b", "None", "no_choices"}

Chunks == {<< >>} \cup {<<x>> : x \in ChunkKinds} \cup {<<x, y>> : x \in {"a", "None"}, y \in ChunkKinds}

IsContent(chunk) == chunk \notin {"None", "no_choices"}

\* The system-prompt test of each class.
RefusesSystem(model, system, allows) ==
    IF model = "XAIChat" THEN system /\ ~allows ELSE system

\* One run of execute(prompt, stream, response, ...) to the end of its
\* generator, against an API that answers a non-streaming request with
\* (content, reasoning) and a streaming one with chunks.
Execute(model, stream, o, system, allows, content, reasoning, chunks) ==
    LET has_reasoning == HasReasoning(o)
        stream2 == IF has_reasoning /\ stream THEN FALSE ELSE stream
        base == [NoExec EXCEPT !.ran = TRUE, !.model = model, !.streamAsked = stream,
                               !.effort = o.reasoning_effort,
                               !.temperature = o.temperature, !.system = system]
    IN
    /\ exec' =
         IF RefusesSystem(model, system, allows)
         THEN [base EXCEPT !.raised = "NotImplementedError"]
         ELSE IF ~stream2
         THEN [base EXCEPT !.apiCalled = TRUE, !.apiStream = FALSE,
                           !.yielded =
                              IF has_reasoning /\ reasoning # ""
                              THEN <<"Reasoning Content:", reasoning,
                                     "Final Response:", content>>
                              ELSE <<content>>]
         ELSE [base EXCEPT !.apiCalled = TRUE, !.apiStream = TRUE,
                           !.yielded = SelectSeq(chunks, IsContent)]
    /\ UNCHANGED <<now, dirs, files, pc, call, lastOk, lastWrite>>

\* --------------------------------------------------------------- callers
\* A direct call fetch_cached_json(url, path, cache_timeout); path = Path(path).
BeginFetch(p, path, timeout) ==
    /\ pc[p] = "idle"
    /\ call' = [call EXCEPT ![p] =
                  [IdleCall EXCEPT !.kind = "fetch", !.path = path,
                                   !.timeout = timeout, !.pre = files[path],
                                   !.preDirs = dirs]]
    /\ pc' = [pc EXCEPT ![p] = "mkdir"]
    /\ UNCHANGED <<now, dirs, files, lastOk, lastWrite, exec>>

\* register_models up to its call of get_xAI_models: without a key it returns
\* at once; with one, get_xAI_models calls fetch_cached_json on the catalog
\* path with the catalog's window.
BeginRegister(p, key) ==
    /\ pc[p] = "idle"
    /\ IF key = ""
       THEN /\ call' = [call EXCEPT ![p] =
                          [IdleCall EXCEPT !.kind = "register", !.key = key,
                                           !.pre = files[CatalogPath],
                                           !.preDirs = dirs,
                                           !.result = Returned(Value(<< >>), "")]]
            /\ pc' = [pc EXCEPT ![p] = "done"]
       ELSE /\ call' = [call EXCEPT ![p] =
                          [IdleCall EXCEPT !.kind = "register", !.key = key,
                                           !.path = CatalogPath,
                                           !.timeout = CacheTimeout,
                                           !.pre = files[CatalogPath],
                                           !.preDirs = dirs]]
            /\ pc' = [pc EXCEPT ![p] = "mkdir"]
    /\ UNCHANGED <<now, dirs, files, lastOk, lastWrite, exec>>

RECURSIVE Registrations(_, _, _)
\* One loop of register_models: register(Model(model_id=prefix + id)) for each
\* model definition in order.
Registrations(prefix, items, i) ==
    IF i > Len(items) THEN << >>
    ELSE <<[prefix |-> prefix, id |-> items[i].id]>> \o Registrations(prefix, items, i + 1)

\* Both loops merged into one: chat and completion model registered per model.
RECURSIVE RegisterLoopsMerged(_, _)
RegisterLoopsMerged(items, i) ==
    IF i > Len(items) THEN << >>
    ELSE <<[prefix |-> "xAI/", id |-> items[i].id],
           [prefix |-> "xAIcompletion/", id |-> items[i].id]>>
         \o RegisterLoopsMerged(items, i + 1)

RegisterLoopsAsOne(items) == RegisterLoopsMerged(items, 1)

\* The two loops of register_models: every XAIChat, then every XAICompletion.
RegisterLoops(items) ==
    Registrations("xAI/", items, 1) \o Registrations("xAIcompletion/", items, 1)

\* get_xAI_models returns fetch_cached_json(...)["data"] and register_models
\* registers from it; an exception of fetch_cached_json passes through both.
RegisterModels(p) ==
    /\ pc[p] = "register"
    /\ call' = [call EXCEPT ![p].registered =
                  IF call[p].result.state = "return"
                  THEN RegisterLoops(call[p].result.value.data) ELSE << >>]
    /\ pc' = [pc EXCEPT ![p] = "done"]
    /\ UNCHANGED <<now, dirs, files, lastOk, lastWrite, exec>>

\* The caller takes the outcome; the next call starts from scratch.
Return(p) ==
    /\ pc[p] = "done"
    /\ call' = [call EXCEPT ![p] = IdleCall]
    /\ pc' = [pc EXCEPT ![p] = "idle"]
    /\ UNCHANGED <<now, dirs, files, lastOk, lastWrite, exec>>

\* Time passes.
Tick ==
    /\ now < MaxTicks * TickSeconds
    /\ now' = now + TickSeconds
    /\ UNCHANGED <<dirs, files, pc, call, lastOk, lastWrite, exec>>

\* ---------------------------------------------------------- specifications
\* One caller at a time: calls of fetch_cached_json and of register_models,
\* one after the other, as time passes.
SeqProc == CHOOSE p \in Procs : \A q \in Procs : p <= q

Next ==
    \/ Tick
    \/ \E path \in Paths, timeout \in Timeouts : BeginFetch(SeqProc, path, timeout)
    \/ \E key \in {"", "xai-key"} : BeginRegister(SeqProc, key)
    \/ FetchStep(SeqProc)
    \/ RegisterModels(SeqProc)
    \/ Return(SeqProc)

Spec == Init /\ [][Next]_vars

\* Two callers at once, each in one call of get_xAI_models' fetch (the
\* catalog path, the catalog's window), their steps interleaved freely.
NextConc ==
    \E p \in Procs :
        \/ BeginFetch(p, CatalogPath, CacheTimeout)
        \/ FetchStep(p)

SpecConc == Init /\ [][NextConc]_vars

\* Runs of the two execute methods, one after the other.
NextExec ==
    \E model \in {"XAIChat", "XAICompletion"}, stream \in BOOLEAN, o \in Options,
       system \in BOOLEAN, allows \in BOOLEAN, content \in {"a", "b"},
       reasoning \in {"", "r"}, chunks \in Chunks :
        Execute(model, stream, o, system, allows, content, reasoning, chunks)

SpecExec == Init /\ [][NextExec]_vars

\* ------------------------------------------------------------------ claims
Failures == {"request_transport_error", "request_bad_status"}

Requests == Failures \cup {"request_ok"}

Count(t, events) == Cardinality({i \in 1..Len(t) : t[i] \in events})

\* fetch_cached_json has ended, by return or by exception.
Ended(p) == pc[p] \in {"register", "done"} /\ call[p].checked

RequestFailed(p) == Count(call[p].trace, Failures) > 0

\* The file the call found, parsed.
PreParsed(p) == JsonLoads(call[p].pre.content)

\* C1: a call that finds a file younger than cache_timeout (strictly) returns
\* the parsed content of that file, makes no network request and leaves the
\* file's content as it was; a file whose age equals cache_timeout is not
\* fresh, and the network is asked.
C1_FreshHitReturnsCache ==
    \A p \in Procs :
        Ended(p) /\ call[p].sawFile =>
            /\ call[p].sawAge < call[p].timeout =>
                /\ call[p].result.state = "return"
                /\ PreParsed(p).ok
                /\ call[p].result.value = PreParsed(p).value
                /\ Count(call[p].trace, Requests) = 0
                /\ files[call[p].path].content = call[p].pre.content
            /\ call[p].sawAge = call[p].timeout =>
                Count(call[p].trace, Requests) = 1

\* C2: a call whose network fetch fails while a file exists at path, whatever
\* its age, raises nothing, returns the parsed content of that file and
\* leaves the file's content as it was.
C2_StaleFallbackReturnsCache ==
    \A p \in Procs :
        Ended(p) /\ RequestFailed(p) /\ call[p].pre.exists =>
            /\ call[p].result.state = "return"
            /\ PreParsed(p).ok
            /\ call[p].result.value = PreParsed(p).value
            /\ files[call[p].path].content = call[p].pre.content

\* C3: a call whose network fetch fails with no file at path ends with
\* DownloadError naming the path, after one request only, and leaves no file
\* at path.
C3_TerminalFailure ==
    \A p \in Procs :
        Ended(p) /\ RequestFailed(p) /\ ~call[p].pre.exists =>
            /\ call[p].result.state = "raise"
            /\ call[p].result.error = "DownloadError"
            /\ call[p].result.errpath = call[p].path
            /\ Count(call[p].trace, Requests) = 1
            /\ ~files[call[p].path].exists

C3_Witness ==
    /\ pc[SeqProc] = "done"
    /\ call[SeqProc].path = DeepPath
    /\ RequestFailed(SeqProc)
    /\ ~call[SeqProc].pre.exists
    /\ call[SeqProc].result.error = "DownloadError"

\* The call reached the network step and got a success status with a JSON body.
Refreshed(p) ==
    /\ Ended(p)
    /\ ~call[p].sawFile \/ call[p].sawAge >= call[p].timeout
    /\ Count(call[p].trace, {"request_ok"}) > 0
    /\ JsonLoads(call[p].resp).ok

\* C4: a call that reaches the network step and whose fetch succeeds returns
\* the parsed response body, and afterwards the file at path exists and its
\* content, parsed, equals the value returned.
C4_RefreshRoundTrip ==
    \A p \in Procs :
        Refreshed(p) =>
            /\ call[p].result.state = "return"
            /\ call[p].result.value = JsonLoads(call[p].resp).value
            /\ files[call[p].path].exists
            /\ JsonLoads(files[call[p].path].content).ok
            /\ JsonLoads(files[call[p].path].content).value = call[p].result.value

\* An expired file with another catalog is replaced, by a text that is not
\* the body as the server sent it.
C4_Witness ==
    /\ pc[SeqProc] = "done"
    /\ Refreshed(SeqProc)
    /\ call[SeqProc].sawFile
    /\ PreParsed(SeqProc).ok
    /\ PreParsed(SeqProc).value # call[SeqProc].result.value
    /\ Len(call[SeqProc].result.value.data) = 2
    /\ files[call[SeqProc].path].content # call[SeqProc].resp

\* C5: between calls, a file that exists holds the JSON body of the most
\* recent successful response, and a call that does not return a freshly
\* fetched value leaves the file as it found it.
C5_CacheHoldsLastSuccess ==
    (\A p \in Procs : pc[p] \in {"idle", "done"}) =>
        /\ \A path \in Paths :
              files[path].exists =>
                  /\ lastOk[path].some
                  /\ JsonLoads(files[path].content).ok
                  /\ JsonLoads(files[path].content).value = lastOk[path].value
        /\ \A p \in Procs :
              pc[p] = "done" /\ call[p].result.source # "network" =>
                  /\ files[call[p].path].exists = call[p].pre.exists
                  /\ files[call[p].path].content = call[p].pre.content

\* C6: once two concurrent calls on one path have both fetched and returned,
\* the file holds the complete body of the write that landed last: no
\* mixture of the two bodies, no empty file.
C6_LastWriteWins ==
    (\A p \in Procs : pc[p] = "done" /\ call[p].result.source = "network") =>
        /\ files[CatalogPath].exists
        /\ files[CatalogPath].content # << >>
        /\ files[CatalogPath].content = lastWrite[CatalogPath].text

\* C7: a call makes at most one network request and at most one write of the
\* cache file; the file is opened and written only after the request has
\* succeeded, the fallback read happens only after it has failed, and a
\* failed request is the call's last.
C7_SingleAttempt ==
    \A p \in Procs :
        LET t == call[p].trace IN
        /\ Count(t, Requests) <= 1
        /\ Count(t, {"open_w"}) <= 1
        /\ Count(t, {"write"}) <= 1
        /\ \A i \in 1..Len(t) :
              /\ t[i] \in {"open_w", "write"} => \E j \in 1..(i - 1) : t[j] = "request_ok"
              /\ t[i] = "read_stale" => \E j \in 1..(i - 1) : t[j] \in Failures
              /\ t[i] \in Failures => \A j \in (i + 1)..Len(t) : t[j] \notin Requests

C7_Witness ==
    /\ pc[SeqProc] = "done"
    /\ call[SeqProc].trace = <<"request_bad_status", "read_stale">>
    /\ call[SeqProc].result.state = "return"

\* C8: when the cache file is opened for writing, every parent directory of
\* the path exists, and no call fails for lack of one.
C8_ParentsExistBeforeOpen ==
    \A p \in Procs :
        /\ pc[p] = "open" => Ancestors(call[p].path) \subseteq dirs
        /\ call[p].result.error # "FileNotFoundError"

\* A call on a path none of whose parents existed has written its file.
C8_Witness ==
    /\ pc[SeqProc] = "done"
    /\ call[SeqProc].path = DeepPath
    /\ call[SeqProc].preDirs \cap Ancestors(DeepPath) = {}
    /\ call[SeqProc].result.source = "network"
    /\ files[DeepPath].exists

\* C9: asked to stream, execute issues its API request with stream=False
\* exactly when reasoning_effort has been set; with reasoning_effort left at
\* None the request streams and the content is yielded chunk by chunk.
C9_StreamOffOnlyForReasoning ==
    exec.ran /\ exec.apiCalled /\ exec.streamAsked =>
        (exec.apiStream = FALSE <=> exec.effort # "None")

\* C10: register_models without a key registers nothing and touches neither
\* network nor cache; with a key and a catalog of n models it registers 2n
\* models, the n chat models in catalog order, then the n completion models
\* in catalog order; when the fetch raises, it registers nothing.
C10_RegisterModels ==
    \A p \in Procs :
        pc[p] = "done" /\ call[p].kind = "register" =>
            LET r == call[p].registered
                res == call[p].result
                n == Len(res.value.data)
            IN
            /\ call[p].key = "" =>
                /\ r = << >>
                /\ call[p].trace = << >>
                /\ ~call[p].checked
                /\ dirs = call[p].preDirs
                /\ files[CatalogPath] = call[p].pre
            /\ call[p].key # "" /\ res.state = "return" =>
                /\ Len(r) = 2 * n
                /\ \A i \in 1..n :
                      /\ r[i] = [prefix |-> "xAI/", id |-> res.value.data[i].id]
                      /\ r[n + i] = [prefix |-> "xAIcompletion/", id |-> res.value.data[i].id]
            /\ res.state = "raise" => r = << >>

C10_Witness ==
    /\ pc[SeqProc] = "done"
    /\ call[SeqProc].kind = "register"
    /\ call[SeqProc].key # ""
    /\ call[SeqProc].result.source = "stale"
    /\ Len(call[SeqProc].registered) = 4

====
